---- MODULE Spec2Model ----
(***************************************************************************)
(* A model of the run orchestration core of the crypto reply bot           *)
(* (src/twitter_bot/twitter_bot.py): the candidate selector, the rate      *)
(* limit handler, the tweet history and the main loop of run_twitter_bot.  *)
(*                                                                         *)
(* Time is in whole seconds.  Engagement scores are kept doubled           *)
(* (2*likes + 4*retweets + 3*replies) so that the 1.5 weight of a reply    *)
(* stays an integer; the threshold is doubled in the same comparison.      *)
(***************************************************************************)
EXTENDS Integers, Sequences, FiniteSets, TLC

\* ------------------------------------------------------------------ bounds
NumIds == 2
MaxRaw == 2
MaxQuota == 2
MaxRuns == 2
MaxOversleep == 1
MaxGovSteps == 4

\* ------------------------------------------------------- program constants
THRESHOLD == 100
SEARCH_CEILING == 450
POST_CEILING == 50
WINDOW == 900
PAUSE == 30

\* max_results of the search made by a run
MAX_RESULTS == 30

VARIABLES
    pc,              \* position of run_twitter_bot
    max_tweets,      \* the argument of the current run
    rate_limits,     \* RateLimitHandler.rate_limits
    replied_tweets,  \* TweetHistory.replied_tweets (in memory)
    tweets,          \* the list search_crypto_tweets returned
    idx,             \* position of the for loop in tweets (1-based)
    reply_count,     \* successful replies of this run
    reply_id,        \* the id post_reply returned (0: none)
    history_file,    \* tweet_history.json on disk
    twitter,         \* the remote service: replies posted under each tweet id
    now,             \* time.time()
    runs,            \* runs started so far
    events,          \* what the current run (or the governor driver) did, in order
    ignored,         \* raw posts the selector dropped in this run
    start_keys,      \* keys of replied_tweets right after the load of this run
    faults,          \* faults the environment injected into this run
    dirty,           \* what went wrong with the store so far: "load", "save" (a
                     \* failed load or save), "kill" (a kill before a save ended)
    prev,            \* summary of the previous run, taken when a run starts
    gov_steps,       \* steps of the rate limit handler's driver so far
    fn_in,           \* the argument of a function checked on its own
    fn_out,          \* its result (<<>> before the call)
    other            \* what a second run, started alongside, holds in memory

vars == <<pc, max_tweets, rate_limits, replied_tweets, tweets, idx, reply_count,
          reply_id, history_file, twitter, now, runs, events, ignored,
          start_keys, faults, dirty, prev, gov_steps, fn_in, fn_out, other>>

\* ------------------------------------------------------------- string keys
Digit == <<"0", "1", "2", "3", "4", "5", "6", "7", "8", "9">>

RECURSIVE Str(_)
\* str(tweet_id): the decimal digits of a non-negative integer
Str(n) == IF n < 10 THEN Digit[n + 1] ELSE Str(n \div 10) \o Digit[(n % 10) + 1]

EmptyDict == [k \in {} |-> 0]

\* d[k] = v of a Python dict: an existing key is overwritten
DictSet(d, k, v) == [x \in DOMAIN d \cup {k} |-> IF x = k THEN v ELSE d[x]]

\* ------------------------------------------------------ candidate selector
Ids == 1 .. NumIds

\* the ids of the five-post scenario
ScenarioIds == 1 .. 5

\* every tweet id the service knows
TweetIds == Ids \cup ScenarioIds \cup 1 .. MAX_RESULTS

\* public_metrics of the raw posts the search may return: <<likes, retweets, replies>>
Metrics == { <<80, 0, 0>>, <<0, 50, 0>>, <<100, 20, 7>> }

RawPosts == [id : Ids, metrics : Metrics]

RECURSIVE SeqsUpTo(_, _)
SeqsUpTo(S, n) ==
    IF n = 0 THEN { <<>> }
    ELSE LET shorter == SeqsUpTo(S, n - 1)
         IN  shorter \cup { Append(s, x) : s \in { t \in shorter : Len(t) = n - 1 }, x \in S }

Feeds == SeqsUpTo(RawPosts, MaxRaw)

\* twice likes + (retweets * 2) + (replies * 1.5)
engagement_score(m) == 2 * m[1] + 4 * m[2] + 3 * m[3]

Passes(m) == engagement_score(m) >= 2 * THRESHOLD

RECURSIVE Filter(_)
\* the loop that builds filtered_tweets, in response order
Filter(raw) ==
    IF raw = <<>> THEN <<>>
    ELSE LET t == Head(raw)
             rest == Filter(Tail(raw))
         IN  IF Passes(t.metrics)
             THEN <<[id |-> t.id, engagement_score |-> engagement_score(t.metrics)]>> \o rest
             ELSE rest

RECURSIVE InsertUnstable(_, _)
\* a sort that puts a later element before the earlier ones of equal score
InsertUnstable(s, x) ==
    IF s = <<>> THEN <<x>>
    ELSE IF Head(s).engagement_score > x.engagement_score
         THEN <<Head(s)>> \o InsertUnstable(Tail(s), x)
         ELSE <<x>> \o s

RECURSIVE Insert(_, _)
\* x goes after every element whose score is >= its own
Insert(s, x) ==
    IF s = <<>> THEN <<x>>
    ELSE IF Head(s).engagement_score >= x.engagement_score
         THEN <<Head(s)>> \o Insert(Tail(s), x)
         ELSE <<x>> \o s

\* the filtered tweets left in the order of the response
Unsorted(s) == s

RECURSIVE SortDesc(_)
\* list.sort(key=score, reverse=True): stable, highest first
SortDesc(s) ==
    IF s = <<>> THEN <<>>
    ELSE Insert(SortDesc(SubSeq(s, 1, Len(s) - 1)), s[Len(s)])

\* a selector that keeps what it had filtered when the search raises
search_keeping_partial(raw, ok) == SortDesc(Filter(raw))

\* search_crypto_tweets on a response holding raw; a failed search gives []
search_crypto_tweets(raw, ok) == IF ok THEN SortDesc(Filter(raw)) ELSE <<>>

\* ------------------------------------------------------------ rate limits
Endpoints == {"search", "post"}

Ceiling(e) == IF e = "search" THEN SEARCH_CEILING ELSE POST_CEILING

\* RateLimitHandler.__init__ at time t
NewRateLimits(t) ==
    [e \in Endpoints |-> [remaining |-> Ceiling(e), reset_time |-> t + WINDOW]]

\* a handler that already waits when half of the budget is left
MustWaitAtHalf(lim, t) == 2 * lim.remaining <= POST_CEILING /\ lim.reset_time - t > 0

\* the test with < for <=
MustWaitAtZero(lim, t) == lim.remaining < 1 /\ lim.reset_time - t > 0

\* the condition under which check_and_wait sleeps and resets
MustWait(lim, t) == lim.remaining <= 1 /\ lim.reset_time - t > 0

\* check_and_wait(endpoint) entered at time t, the sleep overshooting by o:
\* the limits and the time at its return
check_and_wait(rl, e, t, o) ==
    IF MustWait(rl[e], t)
    THEN LET woke == t + (rl[e].reset_time - t) + 1 + o
         IN  [limits |-> [rl EXCEPT ![e] = [remaining |-> Ceiling(e) - 1,
                                            reset_time |-> woke + WINDOW]],
              now |-> woke]
    ELSE [limits |-> [rl EXCEPT ![e].remaining = @ - 1], now |-> t]

\* the value of a header that is present
The(h) == CHOOSE v \in h : TRUE

\* update_limits(endpoint, headers): each of the two headers is given as the
\* set of its values, empty when the header is absent
update_limits(rl, e, rem, reset) ==
    [rl EXCEPT ![e] = [remaining |-> IF rem # {} THEN The(rem) ELSE @.remaining,
                       reset_time |-> IF reset # {} THEN The(reset) ELSE @.reset_time]]

\* ---------------------------------------------------------- tweet history
\* _load_history: the file's mapping, {} when it cannot be read or parsed
load_history_fresh(file, readable) == EmptyDict

load_history(file, readable) ==
    IF readable /\ file.valid THEN file.data ELSE EmptyDict

\* tweet_id in self.replied_tweets, the str() forgotten: an integer id is
\* never one of the string keys
has_replied_unkeyed(d, tweet_id) == FALSE

has_replied(d, tweet_id) == Str(tweet_id) \in DOMAIN d

\* the in-memory half of add_reply
add_reply(d, tweet_id, rid) == DictSet(d, Str(tweet_id), rid)

\* _save_history: "ok" writes the whole mapping; "closed" fails to open the
\* file and leaves it; "torn" fails after open(..., 'w') truncated it
SaveOutcomes == {"ok", "closed", "torn"}

save_history(file, d, outcome) ==
    CASE outcome = "ok" -> [valid |-> TRUE, data |-> d]
      [] outcome = "closed" -> file
      [] OTHER -> [valid |-> FALSE, data |-> EmptyDict]

\* ------------------------------------------------------------------ ghosts
Ev(op, id, ok) == [op |-> op, id |-> id, ok |-> ok]

NoPrev == [done |-> FALSE, tweets |-> <<>>, recorded |-> FALSE]

\* what a process that has not called run_twitter_bot yet holds
NoOther ==
    [pc |-> "Idle", max_tweets |-> 0, rate_limits |-> NewRateLimits(0),
     replied_tweets |-> EmptyDict, tweets |-> <<>>, idx |-> 1, reply_count |-> 0,
     reply_id |-> 0, events |-> <<>>, ignored |-> 0, start_keys |-> {},
     faults |-> {}]

Running == pc \notin {"Idle", "Done", "Killed"}

Searched == \E i \in 1 .. Len(events) : events[i].op = "search"

Init ==
    /\ pc = "Idle"
    /\ max_tweets = 0
    /\ rate_limits = NewRateLimits(0)
    /\ replied_tweets = EmptyDict
    /\ tweets = <<>>
    /\ idx = 1
    /\ reply_count = 0
    /\ reply_id = 0
    /\ history_file = [valid |-> TRUE, data |-> EmptyDict]
    /\ twitter = [i \in TweetIds |-> 0]
    /\ now = 0
    /\ runs = 0
    /\ events = <<>>
    /\ ignored = 0
    /\ start_keys = {}
    /\ faults = {}
    /\ dirty = {}
    /\ prev = NoPrev
    /\ gov_steps = 0
    /\ fn_in = <<>>
    /\ fn_out = <<>>
    /\ other = NoOther

\* -------------------------------------------------------- run_twitter_bot
\* The call of run_twitter_bot(max_tweets): setup_twitter_api, then the rate
\* limit handler and the tweet history are created.  A setup that raises ends
\* the run in the outer except.
StartRun(m, apiOk, readable) ==
    /\ pc \in {"Idle", "Done", "Killed"}
    /\ runs < MaxRuns
    /\ runs' = runs + 1
    /\ max_tweets' = m
    /\ prev' = IF pc = "Done" /\ Searched
                THEN [done |-> TRUE,
                      tweets |-> tweets,
                      recorded |-> /\ history_file.valid
                                   /\ \A i \in 1 .. Len(tweets) :
                                          Str(tweets[i].id) \in DOMAIN history_file.data]
                ELSE NoPrev
    /\ tweets' = <<>>
    /\ idx' = 1
    /\ reply_count' = 0
    /\ reply_id' = 0
    /\ ignored' = 0
    /\ events' = <<>>
    /\ IF apiOk
       THEN /\ pc' = "Searching"
            /\ rate_limits' = NewRateLimits(now)
            /\ replied_tweets' = load_history(history_file, readable)
            /\ faults' = IF readable /\ history_file.valid THEN {} ELSE {"load"}
       ELSE /\ pc' = "Done"
            /\ faults' = {"api"}
            /\ UNCHANGED <<rate_limits, replied_tweets>>
    /\ start_keys' = DOMAIN replied_tweets'
    /\ dirty' = IF "load" \in faults' THEN dirty \cup {"load"} ELSE dirty
    /\ UNCHANGED <<history_file, twitter, now,
                   gov_steps, fn_in, fn_out, other>>

\* rate_handler.check_and_wait("search"); tweets = search_crypto_tweets(...);
\* reply_count = 0
SearchStep(raw, ok) ==
    /\ pc = "Searching"
    /\ \E o \in 0 .. MaxOversleep :
         LET cw == check_and_wait(rate_limits, "search", now, o)
         IN  /\ rate_limits' = cw.limits
             /\ now' = cw.now
    /\ tweets' = search_crypto_tweets(raw, ok)
    /\ ignored' = IF ok THEN Len(raw) - Len(tweets') ELSE 0
    /\ reply_count' = 0
    /\ idx' = 1
    /\ pc' = "Iterating"
    /\ events' = events \o <<Ev("acquire_search", 0, TRUE), Ev("search", 0, ok)>>
    /\ faults' = IF ok THEN faults ELSE faults \cup {"search"}
    /\ UNCHANGED <<max_tweets, replied_tweets, reply_id, history_file, twitter,
                   runs, start_keys, dirty, prev,
                   gov_steps, fn_in, fn_out, other>>

Search == \E raw \in Feeds : SearchStep(raw, TRUE)

\* the search raises, before or while the response is worked through
SearchFails == \E raw \in Feeds : SearchStep(raw, FALSE)

\* the for loop runs off the end of tweets
Finish ==
    /\ pc = "Iterating"
    /\ idx > Len(tweets)
    /\ pc' = "Done"
    /\ events' = Append(events, Ev("done", reply_count, TRUE))
    /\ UNCHANGED <<max_tweets, rate_limits, replied_tweets, tweets, idx, reply_count,
                   reply_id, history_file, twitter, now, runs, ignored, start_keys,
                   faults, dirty, prev,
                   gov_steps, fn_in, fn_out, other>>

\* the test of the history made after the post budget is acquired
SkipAfterAcquire ==
    /\ pc = "Iterating"
    /\ idx <= Len(tweets)
    /\ has_replied(replied_tweets, tweets[idx].id)
    /\ idx' = idx + 1
    /\ rate_limits' = check_and_wait(rate_limits, "post", now, 0).limits
    /\ now' = check_and_wait(rate_limits, "post", now, 0).now
    /\ events' = Append(events, Ev("skip", tweets[idx].id, TRUE))
    /\ UNCHANGED <<pc, max_tweets, replied_tweets, tweets, reply_count,
                   reply_id, history_file, twitter, runs, ignored, start_keys,
                   faults, dirty, prev,
                   gov_steps, fn_in, fn_out, other>>

\* if tweet_history.has_replied(tweet["id"]): continue
Skip ==
    /\ pc = "Iterating"
    /\ idx <= Len(tweets)
    /\ has_replied(replied_tweets, tweets[idx].id)
    /\ idx' = idx + 1
    /\ events' = Append(events, Ev("skip", tweets[idx].id, TRUE))
    /\ UNCHANGED <<pc, max_tweets, rate_limits, replied_tweets, tweets, reply_count,
                   reply_id, history_file, twitter, now, runs, ignored, start_keys,
                   faults, dirty, prev,
                   gov_steps, fn_in, fn_out, other>>

\* the reply posted straight after it is generated, no budget acquired
ComposeThenPost ==
    /\ pc = "Iterating"
    /\ idx <= Len(tweets)
    /\ ~has_replied(replied_tweets, tweets[idx].id)
    /\ pc' = "Posting"
    /\ events' = Append(events, Ev("compose", tweets[idx].id, TRUE))
    /\ UNCHANGED <<max_tweets, rate_limits, replied_tweets, tweets, idx, reply_count,
                   reply_id, history_file, twitter, now, runs, ignored, start_keys,
                   faults, dirty, prev,
                   gov_steps, fn_in, fn_out, other>>

\* reply_text = generate_reply(tweet["text"])
Compose ==
    /\ pc = "Iterating"
    /\ idx <= Len(tweets)
    /\ ~has_replied(replied_tweets, tweets[idx].id)
    /\ pc' = "RateWaiting"
    /\ events' = Append(events, Ev("compose", tweets[idx].id, TRUE))
    /\ UNCHANGED <<max_tweets, rate_limits, replied_tweets, tweets, idx, reply_count,
                   reply_id, history_file, twitter, now, runs, ignored, start_keys,
                   faults, dirty, prev,
                   gov_steps, fn_in, fn_out, other>>

\* rate_handler.check_and_wait("post")
AcquirePost ==
    /\ pc = "RateWaiting"
    /\ \E o \in 0 .. MaxOversleep :
         LET cw == check_and_wait(rate_limits, "post", now, o)
         IN  /\ rate_limits' = cw.limits
             /\ now' = cw.now
    /\ pc' = "Posting"
    /\ events' = Append(events, Ev("acquire_post", tweets[idx].id, TRUE))
    /\ UNCHANGED <<max_tweets, replied_tweets, tweets, idx, reply_count, reply_id,
                   history_file, twitter, runs, ignored, start_keys, faults, dirty,
                   prev,
                   gov_steps, fn_in, fn_out, other>>

RECURSIVE SumTo(_, _)
SumTo(f, n) == IF n = 0 THEN 0 ELSE f[n] + SumTo(f, n - 1)

\* replies posted so far; the service numbers its replies in order
TotalReplies(tw) == SumTo(tw, Cardinality(TweetIds))

\* post_reply letting the failure out: the run ends in the outer except
PostAborting(ok) ==
    /\ pc = "Posting"
    /\ events' = Append(events, Ev("post", tweets[idx].id, ok))
    /\ IF ok
       THEN /\ twitter' = [twitter EXCEPT ![tweets[idx].id] = @ + 1]
            /\ reply_id' = TotalReplies(twitter')
            /\ pc' = "Recording"
            /\ UNCHANGED <<idx, faults>>
       ELSE /\ pc' = "Done"
            /\ idx' = idx + 1
            /\ faults' = faults \cup {"post"}
            /\ UNCHANGED <<twitter, reply_id>>
    /\ UNCHANGED <<max_tweets, rate_limits, replied_tweets, tweets, reply_count,
                   history_file, now, runs, ignored, start_keys, dirty, prev,
                   gov_steps, fn_in, fn_out, other>>

\* reply_count += 1 placed before the test of success
PostCountingFailures(ok) ==
    /\ pc = "Posting"
    /\ events' = Append(events, Ev("post", tweets[idx].id, ok))
    /\ IF ok
       THEN /\ twitter' = [twitter EXCEPT ![tweets[idx].id] = @ + 1]
            /\ reply_id' = TotalReplies(twitter')
            /\ pc' = "Recording"
            /\ UNCHANGED <<idx, faults, reply_count>>
       ELSE /\ pc' = "Iterating"
            /\ idx' = idx + 1
            /\ reply_count' = reply_count + 1
            /\ faults' = faults \cup {"post"}
            /\ UNCHANGED <<twitter, reply_id>>
    /\ UNCHANGED <<max_tweets, rate_limits, replied_tweets, tweets,
                   history_file, now, runs, ignored, start_keys, dirty, prev,
                   gov_steps, fn_in, fn_out, other>>

\* success, reply_id = post_reply(client, tweet["id"], reply_text)
Post(ok) ==
    /\ pc = "Posting"
    /\ events' = Append(events, Ev("post", tweets[idx].id, ok))
    /\ IF ok
       THEN /\ twitter' = [twitter EXCEPT ![tweets[idx].id] = @ + 1]
            /\ reply_id' = TotalReplies(twitter')
            /\ pc' = "Recording"
            /\ UNCHANGED <<idx, faults>>
       ELSE /\ pc' = "Iterating"
            /\ idx' = idx + 1
            /\ faults' = faults \cup {"post"}
            /\ UNCHANGED <<twitter, reply_id>>
    /\ UNCHANGED <<max_tweets, rate_limits, replied_tweets, tweets, reply_count,
                   history_file, now, runs, ignored, start_keys, dirty, prev,
                   gov_steps, fn_in, fn_out, other>>

\* the quota test with > for >=
QuotaPassed(count, m) == count > m

\* the quota test made after a successful reply
QuotaReached(count, m) == count >= m

\* a failed save let out of add_reply: the run ends, the reply not counted
RecordAbortingOnSaveFailure(outcome) ==
    /\ pc = "Recording"
    /\ replied_tweets' = add_reply(replied_tweets, tweets[idx].id, reply_id)
    /\ history_file' = save_history(history_file, replied_tweets', outcome)
    /\ reply_count' = IF outcome = "ok" THEN reply_count + 1 ELSE reply_count
    /\ reply_id' = 0
    /\ events' = events \o
                 <<Ev("record", tweets[idx].id, outcome = "ok")>> \o
                 (IF outcome = "ok" /\ QuotaReached(reply_count', max_tweets)
                  THEN <<Ev("done", reply_count', TRUE)>> ELSE <<>>)
    /\ pc' = IF outcome # "ok" \/ QuotaReached(reply_count', max_tweets)
             THEN "Done" ELSE "Pausing"
    /\ faults' = IF outcome = "ok" THEN faults ELSE faults \cup {"save"}
    /\ dirty' = IF outcome = "ok" THEN dirty ELSE dirty \cup {"save"}
    /\ UNCHANGED <<max_tweets, rate_limits, tweets, idx, twitter, now, runs, ignored,
                   start_keys, prev,
                   gov_steps, fn_in, fn_out, other>>

\* the loop going on to the next tweet without time.sleep(30)
RecordNoPause(outcome) ==
    /\ pc = "Recording"
    /\ replied_tweets' = add_reply(replied_tweets, tweets[idx].id, reply_id)
    /\ history_file' = save_history(history_file, replied_tweets', outcome)
    /\ reply_count' = reply_count + 1
    /\ reply_id' = 0
    /\ events' = events \o
                 <<Ev("record", tweets[idx].id, outcome = "ok")>> \o
                 (IF QuotaReached(reply_count', max_tweets)
                  THEN <<Ev("done", reply_count', TRUE)>> ELSE <<>>)
    /\ pc' = IF QuotaReached(reply_count', max_tweets) THEN "Done" ELSE "Iterating"
    /\ idx' = IF QuotaReached(reply_count', max_tweets) THEN idx ELSE idx + 1
    /\ faults' = IF outcome = "ok" THEN faults ELSE faults \cup {"save"}
    /\ dirty' = IF outcome = "ok" THEN dirty ELSE dirty \cup {"save"}
    /\ UNCHANGED <<max_tweets, rate_limits, tweets, twitter, now, runs, ignored,
                   start_keys, prev,
                   gov_steps, fn_in, fn_out, other>>

\* tweet_history.add_reply(...); reply_count += 1; break when the quota is reached
Record(outcome) ==
    /\ pc = "Recording"
    /\ replied_tweets' = add_reply(replied_tweets, tweets[idx].id, reply_id)
    /\ history_file' = save_history(history_file, replied_tweets', outcome)
    /\ reply_count' = reply_count + 1
    /\ reply_id' = 0
    /\ events' = events \o
                 <<Ev("record", tweets[idx].id, outcome = "ok")>> \o
                 (IF QuotaReached(reply_count', max_tweets)
                  THEN <<Ev("done", reply_count', TRUE)>> ELSE <<>>)
    /\ pc' = IF QuotaReached(reply_count', max_tweets) THEN "Done" ELSE "Pausing"
    /\ faults' = IF outcome = "ok" THEN faults ELSE faults \cup {"save"}
    /\ dirty' = IF outcome = "ok" THEN dirty ELSE dirty \cup {"save"}
    /\ UNCHANGED <<max_tweets, rate_limits, tweets, idx, twitter, now, runs, ignored,
                   start_keys, prev,
                   gov_steps, fn_in, fn_out, other>>

\* time.sleep(30), then the next tweet
Pause ==
    /\ pc = "Pausing"
    /\ now' = now + PAUSE
    /\ idx' = idx + 1
    /\ pc' = "Iterating"
    /\ events' = Append(events, Ev("pause", tweets[idx].id, TRUE))
    /\ UNCHANGED <<max_tweets, rate_limits, replied_tweets, tweets, reply_count,
                   reply_id, history_file, twitter, runs, ignored, start_keys, faults,
                   dirty, prev,
                   gov_steps, fn_in, fn_out, other>>

\* The process is killed: what it held in memory is gone.  While recording,
\* the kill falls before the file is opened, inside the write (the file is
\* already truncated), or after it.
Kill ==
    /\ Running
    /\ pc' = "Killed"
    /\ IF pc = "Recording"
       THEN \E outcome \in SaveOutcomes :
              /\ history_file' = save_history(history_file,
                                     add_reply(replied_tweets, tweets[idx].id, reply_id),
                                     outcome)
              /\ dirty' = IF outcome = "ok" THEN dirty ELSE dirty \cup {"kill"}
       ELSE UNCHANGED <<history_file, dirty>>
    /\ replied_tweets' = EmptyDict
    /\ tweets' = <<>>
    /\ idx' = 1
    /\ reply_count' = 0
    /\ reply_id' = 0
    /\ events' = <<>>
    /\ ignored' = 0
    /\ start_keys' = {}
    /\ faults' = {"kill"}
    /\ UNCHANGED <<max_tweets, rate_limits, twitter, now, runs, prev,
                   gov_steps, fn_in, fn_out, other>>

Next ==
    \/ \E m \in 0 .. MaxQuota, apiOk \in BOOLEAN, readable \in BOOLEAN :
         StartRun(m, apiOk, readable)
    \/ Search
    \/ SearchFails
    \/ Finish
    \/ Skip
    \/ Compose
    \/ AcquirePost
    \/ \E ok \in BOOLEAN : Post(ok)
    \/ \E outcome \in SaveOutcomes : Record(outcome)
    \/ Pause
    \/ Kill

Spec == Init /\ [][Next]_vars

\* ------------------------------------------- a run that is left to finish
\* The statements of a run: the process, once started and not killed, keeps
\* executing its next statement; its sleeps are finite.
RunStep ==
    \/ Search
    \/ SearchFails
    \/ Finish
    \/ Skip
    \/ Compose
    \/ AcquirePost
    \/ \E ok \in BOOLEAN : Post(ok)
    \/ \E outcome \in SaveOutcomes : Record(outcome)
    \/ Pause

NextLive ==
    \/ \E m \in 0 .. MaxQuota, apiOk \in BOOLEAN, readable \in BOOLEAN :
         StartRun(m, apiOk, readable)
    \/ RunStep

\* the file after the tweets of H were replied to and recorded, lowest id first
StoreOf(H) ==
    [valid |-> TRUE,
     data |-> [k \in {Str(i) : i \in H} |->
                 Cardinality({ j \in H : \E i \in H : Str(i) = k /\ j <= i })]]

\* Earlier runs have replied to the tweets of H and recorded them.
InitLive ==
    \E H \in SUBSET Ids :
      /\ pc = "Idle"
      /\ max_tweets = 0
      /\ rate_limits = NewRateLimits(0)
      /\ replied_tweets = EmptyDict
      /\ tweets = <<>>
      /\ idx = 1
      /\ reply_count = 0
      /\ reply_id = 0
      /\ twitter = [i \in TweetIds |-> IF i \in H THEN 1 ELSE 0]
      /\ history_file = StoreOf(H)
      /\ now = 0
      /\ runs = MaxRuns - 1
      /\ events = <<>>
      /\ ignored = 0
      /\ start_keys = {}
      /\ faults = {}
      /\ dirty = {}
      /\ prev = NoPrev
      /\ gov_steps = 0
      /\ fn_in = <<>>
      /\ fn_out = <<>>
      /\ other = NoOther

SpecLive == InitLive /\ [][NextLive]_vars /\ WF_vars(RunStep)

\* ------------------------------------------ a run with a full search page
\* a response of n posts that all pass the filter, ids 1 .. n
FullResponse(n) == [i \in 1 .. n |-> [id |-> i, metrics |-> <<100, 20, 7>>]]

\* the numbers of posts on the page: none, few, and up to max_results
PageSizes == {0, 1, 2, MAX_RESULTS - 1, MAX_RESULTS}

\* search_crypto_tweets(client, max_results=30): the page holds up to 30 posts
SearchFull == \E n \in PageSizes : SearchStep(FullResponse(n), TRUE)

NextFull ==
    \/ \E m \in 0 .. MaxQuota, apiOk \in BOOLEAN, readable \in BOOLEAN :
         StartRun(m, apiOk, readable)
    \/ SearchFull
    \/ SearchFails
    \/ Finish
    \/ Skip
    \/ Compose
    \/ AcquirePost
    \/ \E ok \in BOOLEAN : Post(ok)
    \/ \E outcome \in SaveOutcomes : Record(outcome)
    \/ Pause

SpecFull == InitLive /\ [][NextFull]_vars

\* ------------------------------------------------------ two runs at once
\* Two processes run run_twitter_bot against the same history file and the
\* same service.  The variables of the run hold what the process now
\* executing has in memory; other holds the same for the process that is
\* waiting.  The file, the service and the clock are shared.
Locals ==
    [pc |-> pc, max_tweets |-> max_tweets, rate_limits |-> rate_limits,
     replied_tweets |-> replied_tweets, tweets |-> tweets, idx |-> idx,
     reply_count |-> reply_count, reply_id |-> reply_id, events |-> events,
     ignored |-> ignored, start_keys |-> start_keys, faults |-> faults]

\* the operating system lets the other process go on
Switch ==
    /\ other' = Locals
    /\ pc' = other.pc
    /\ max_tweets' = other.max_tweets
    /\ rate_limits' = other.rate_limits
    /\ replied_tweets' = other.replied_tweets
    /\ tweets' = other.tweets
    /\ idx' = other.idx
    /\ reply_count' = other.reply_count
    /\ reply_id' = other.reply_id
    /\ events' = other.events
    /\ ignored' = other.ignored
    /\ start_keys' = other.start_keys
    /\ faults' = other.faults
    /\ UNCHANGED <<history_file, twitter, now, runs, dirty, prev, gov_steps,
                   fn_in, fn_out>>

\* the search gives each run the one or the two most relevant posts
SearchOverlap == \E n \in 1 .. MaxRaw : SearchStep(FullResponse(n), TRUE)

NextOverlap ==
    \/ \E m \in 0 .. MaxQuota, apiOk \in BOOLEAN, readable \in BOOLEAN :
         StartRun(m, apiOk, readable)
    \/ SearchOverlap
    \/ Finish
    \/ Skip
    \/ Compose
    \/ AcquirePost
    \/ \E ok \in BOOLEAN : Post(ok)
    \/ \E outcome \in SaveOutcomes : Record(outcome)
    \/ Pause
    \/ Switch

SpecOverlap == Init /\ [][NextOverlap]_vars

\* ------------------------------------------------- the five-post scenario
\* Earlier runs have replied to two of the five tweets and recorded them.
InitE2E ==
    \E H \in SUBSET ScenarioIds :
      /\ Cardinality(H) = 2
      /\ pc = "Idle"
      /\ max_tweets = 0
      /\ rate_limits = NewRateLimits(0)
      /\ replied_tweets = EmptyDict
      /\ tweets = <<>>
      /\ idx = 1
      /\ reply_count = 0
      /\ reply_id = 0
      /\ twitter = [i \in TweetIds |-> IF i \in H THEN 1 ELSE 0]
      /\ history_file =
           [valid |-> TRUE,
            data |-> [k \in {Str(i) : i \in H} |->
                        IF k = Str(CHOOSE j \in H : \A h \in H : h >= j) THEN 1 ELSE 2]]
      /\ now = 0
      /\ runs = MaxRuns - 1
      /\ events = <<>>
      /\ ignored = 0
      /\ start_keys = {}
      /\ faults = {}
      /\ dirty = {}
      /\ prev = NoPrev
      /\ gov_steps = 0
      /\ fn_in = <<>>
      /\ fn_out = <<>>
      /\ other = NoOther

\* the search returns the five tweets in relevance order, exactly one of them
\* under the threshold
ScenarioFeeds ==
    { [i \in ScenarioIds |-> [id |-> i, metrics |-> m[i]]] :
        m \in { f \in [ScenarioIds -> Metrics] :
                  Cardinality({ i \in ScenarioIds : ~Passes(f[i]) }) = 1 } }

SearchE2E == \E raw \in ScenarioFeeds : SearchStep(raw, TRUE)

NextE2E ==
    \/ \E m \in 0 .. MaxQuota, apiOk \in BOOLEAN, readable \in BOOLEAN :
         StartRun(m, apiOk, readable)
    \/ SearchE2E
    \/ SearchFails
    \/ Finish
    \/ Skip
    \/ Compose
    \/ AcquirePost
    \/ \E ok \in BOOLEAN : Post(ok)
    \/ \E outcome \in SaveOutcomes : Record(outcome)
    \/ Pause
    \/ Kill

SpecE2E == InitE2E /\ [][NextE2E]_vars

\* ------------------------------------------- the rate limit handler alone
\* A caller drives one RateLimitHandler: check_and_wait and update_limits in
\* any order, the clock moving between the calls.  events keeps the last two
\* steps.
GovEv(op, e, before, entered, after, returned) ==
    [op |-> op, endpoint |-> e, before |-> before, entered |-> entered,
     after |-> after, returned |-> returned]

LastTwo(log) == IF Len(log) <= 2 THEN log ELSE SubSeq(log, Len(log) - 1, Len(log))

GovStep(e, limits, t, op) ==
    /\ pc = "Idle"
    /\ runs = 0
    /\ gov_steps < MaxGovSteps
    /\ gov_steps' = gov_steps + 1
    /\ rate_limits' = limits
    /\ now' = t
    /\ events' = LastTwo(Append(events,
                     GovEv(op, e, rate_limits[e], now, limits[e], t)))
    /\ UNCHANGED <<pc, max_tweets, replied_tweets, tweets, idx, reply_count, reply_id,
                   history_file, twitter, runs, ignored, start_keys, faults, dirty,
                   prev, fn_in, fn_out, other>>

\* rate_handler.check_and_wait(e)
Acquire(e) ==
    \E o \in 0 .. MaxOversleep :
      LET cw == check_and_wait(rate_limits, e, now, o)
      IN  GovStep(e, cw.limits, cw.now, "acquire")

\* the values the x-rate-limit-remaining header may carry
HeaderRemaining == {0, 1, 2}

\* rate_handler.update_limits(e, headers)
UpdateLimits(e) ==
    \E rem \in {{}} \cup { {v} : v \in HeaderRemaining },
       reset \in {{}, {now + WINDOW}} :
      GovStep(e, update_limits(rate_limits, e, rem, reset), now, "update")

\* time passes between two calls
Tick ==
    \E d \in {1, WINDOW} :
      GovStep("search", rate_limits, now + d, "tick")

NextRate ==
    \/ \E e \in Endpoints : Acquire(e)
    \/ \E e \in Endpoints : UpdateLimits(e)
    \/ Tick

SpecRate == Init /\ [][NextRate]_vars

\* ------------------------------------------------- functions on their own
\* No run is in progress while a function is called on its own.
BotIdle ==
    /\ max_tweets = 0
    /\ rate_limits = NewRateLimits(0)
    /\ replied_tweets = EmptyDict
    /\ tweets = <<>>
    /\ idx = 1
    /\ reply_count = 0
    /\ reply_id = 0
    /\ history_file = [valid |-> TRUE, data |-> EmptyDict]
    /\ twitter = [i \in TweetIds |-> 0]
    /\ now = 0
    /\ runs = 0
    /\ events = <<>>
    /\ ignored = 0
    /\ start_keys = {}
    /\ faults = {}
    /\ dirty = {}
    /\ prev = NoPrev
    /\ gov_steps = 0
    /\ other = NoOther

botvars == <<max_tweets, rate_limits, replied_tweets, tweets, idx, reply_count,
             reply_id, history_file, twitter, now, runs, events, ignored,
             start_keys, faults, dirty, prev, gov_steps, other>>

\* ---- search_crypto_tweets
\* the longest response given to the selector
MaxSel == 4

\* public_metrics with the scores 40, 150, 100, 300, 99.5 and 100 again
SelectMetrics ==
    { <<40, 0, 0>>, <<150, 0, 0>>, <<0, 50, 0>>, <<100, 100, 0>>, <<98, 0, 1>>, <<100, 0, 0>> }

\* response.data in relevance order: the tweet at position i has id i
Response(ms) == [i \in 1 .. Len(ms) |-> [id |-> i, metrics |-> ms[i]]]

InitSelect ==
    /\ BotIdle
    /\ pc = "Call"
    /\ \E ms \in SeqsUpTo(SelectMetrics, MaxSel), ok \in BOOLEAN :
         fn_in = [data |-> Response(ms), ok |-> ok]
    /\ fn_out = <<>>

\* tweets = search_crypto_tweets(api)
SelectCall ==
    /\ pc = "Call"
    /\ fn_out' = search_crypto_tweets(fn_in.data, fn_in.ok)
    /\ pc' = "Return"
    /\ UNCHANGED <<botvars, fn_in>>

SpecSelect == InitSelect /\ [][SelectCall]_vars

\* ---- generate_reply
\* the longest text the reply generator hands back
MaxReplyLen == 260

\* the character limit of a reply
REPLY_LIMIT == 250

\* the characters kept of a reply that is over the limit
REPLY_KEPT == 247

\* the marker put after them
MARKER == <<".", ".", ".">>

\* the reply returned when generating raises
FALLBACK_REPLY ==
    <<
       "I", "n", "t", "e", "r", "e", "s", "t", "i", "n", "g", " ", "p", "e", "r", "s",
       "p", "e", "c", "t", "i", "v", "e", " ", "o", "n", " ", "c", "r", "y", "p", "t",
       "o", ".", " ", "T", "h", "e", " ", "m", "a", "r", "k", "e", "t", " ", "a", "l",
       "w", "a", "y", "s", " ", "h", "a", "s", " ", "m", "o", "r", "e", " ", "l", "a",
       "y", "e", "r", "s", " ", "t", "h", "a", "n", " ", "m", "o", "s", "t", " ", "r",
       "e", "a", "l", "i", "z", "e", "." >>

Letters == <<"s", "i", "g", "n", "a", "l", " ", ".">>

\* a text of n characters as a sequence of characters; stride varies the pattern
TextOf(n, stride) == [i \in 1 .. n |-> Letters[((i * stride) % Len(Letters)) + 1]]

\* the texts generate_template_reply, or the generator it stands for, may give
GeneratedTexts == { TextOf(n, stride) : n \in 0 .. MaxReplyLen, stride \in {1, 3} }

Personas == {"random", "insider", "expert", "friend", "whale"}

\* the limit kept on the characters cut, so that the marker goes over it
limit_after_marker(reply) ==
    IF Len(reply) > REPLY_LIMIT THEN SubSeq(reply, 1, REPLY_LIMIT) \o MARKER ELSE reply

\* if len(reply) > 250: reply = reply[:247] + "..."
limit_reply(reply) ==
    IF Len(reply) > REPLY_LIMIT THEN SubSeq(reply, 1, REPLY_KEPT) \o MARKER ELSE reply

\* generate_reply when the generator gave reply, or raised
generate_reply(reply, raises) == IF raises THEN FALLBACK_REPLY ELSE limit_reply(reply)

InitCompose ==
    /\ BotIdle
    /\ pc = "Composing"
    /\ \E p \in Personas, reply \in GeneratedTexts, raises \in BOOLEAN :
         fn_in = [persona |-> p, generated |-> reply, raises |-> raises]
    /\ fn_out = <<>>

\* reply_text = generate_reply(tweet["text"], persona)
ComposeCall ==
    /\ pc = "Composing"
    /\ fn_out' = generate_reply(fn_in.generated, fn_in.raises)
    /\ pc' = "Composed"
    /\ UNCHANGED <<botvars, fn_in>>

SpecCompose == InitCompose /\ [][ComposeCall]_vars

\* ---- detect_tweet_context
\* the most words a tweet text is made of
MaxWords == 3

UpperCase == <<"A", "B", "C", "D", "E", "F", "G", "H", "I", "J", "K", "L", "M", "N", "O", "P", "Q", "R", "S", "T", "U", "V", "W", "X", "Y", "Z">>

LowerCase == <<"a", "b", "c", "d", "e", "f", "g", "h", "i", "j", "k", "l", "m", "n", "o", "p", "q", "r", "s", "t", "u", "v", "w", "x", "y", "z">>

\* str.lower() on one character
lower_char(c) ==
    IF \E i \in 1 .. Len(UpperCase) : UpperCase[i] = c
    THEN LowerCase[CHOOSE i \in 1 .. Len(UpperCase) : UpperCase[i] = c]
    ELSE c

\* tweet_text.lower()
lower(text) == [i \in 1 .. Len(text) |-> lower_char(text[i])]

\* keyword in tweet_text
Contains(text, keyword) ==
    \E i \in 0 .. Len(text) - Len(keyword) :
       SubSeq(text, i + 1, i + Len(keyword)) = keyword

\* the contexts dict, in the order it is written and iterated
CONTEXTS ==
    <<
       [context |-> "market_volatility",
        keywords |-> <<
            <<"c", "r", "a", "s", "h">>,
            <<"d", "i", "p">>,
            <<"b", "e", "a", "r">>,
            <<"b", "u", "l", "l">>,
            <<"d", "u", "m", "p">>,
            <<"p", "u", "m", "p">>,
            <<"m", "a", "r", "k", "e", "t">>,
            <<"p", "r", "i", "c", "e">>,
            <<"d", "o", "w", "n">>,
            <<"u", "p">>,
            <<"s", "e", "l", "l">>,
            <<"b", "u", "y">> >>],
       [context |-> "airdrops",
        keywords |-> <<
            <<"a", "i", "r", "d", "r", "o", "p">>,
            <<"f", "r", "e", "e">>,
            <<"c", "l", "a", "i", "m">>,
            <<"d", "i", "s", "t", "r", "i", "b", "u", "t", "i", "o", "n">>,
            <<"e", "l", "i", "g", "i", "b", "l", "e">>,
            <<"s", "n", "a", "p", "s", "h", "o", "t">> >>],
       [context |-> "staking",
        keywords |-> <<
            <<"s", "t", "a", "k", "e">>,
            <<"s", "t", "a", "k", "i", "n", "g">>,
            <<"y", "i", "e", "l", "d">>,
            <<"a", "p", "y">>,
            <<"v", "a", "l", "i", "d", "a", "t", "o", "r">>,
            <<"r", "e", "w", "a", "r", "d", "s">>,
            <<"p", "a", "s", "s", "i", "v", "e">> >>],
       [context |-> "nft",
        keywords |-> <<
            <<"n", "f", "t">>,
            <<"c", "o", "l", "l", "e", "c", "t", "i", "o", "n">>,
            <<"m", "i", "n", "t">>,
            <<"f", "l", "o", "o", "r">>,
            <<"o", "p", "e", "n", "s", "e", "a">>,
            <<"a", "r", "t">> >>],
       [context |-> "defi",
        keywords |-> <<
            <<"d", "e", "f", "i">>,
            <<"y", "i", "e", "l", "d">>,
            <<"f", "a", "r", "m">>,
            <<"l", "i", "q", "u", "i", "d", "i", "t", "y">>,
            <<"p", "o", "o", "l">>,
            <<"s", "w", "a", "p">>,
            <<"l", "e", "n", "d">>,
            <<"b", "o", "r", "r", "o", "w">> >>],
       [context |-> "regulation",
        keywords |-> <<
            <<"s", "e", "c">>,
            <<"r", "e", "g", "u", "l", "a", "t", "i", "o", "n">>,
            <<"c", "o", "m", "p", "l", "i", "a", "n", "c", "e">>,
            <<"l", "e", "g", "a", "l">>,
            <<"g", "o", "v", "e", "r", "n", "m", "e", "n", "t">>,
            <<"b", "a", "n">> >>] >>

\* some keyword of the k-th context occurs in text
MatchesContext(text, k) ==
    \E j \in 1 .. Len(CONTEXTS[k].keywords) : Contains(text, CONTEXTS[k].keywords[j])

RECURSIVE last_match(_, _)
\* a scan in which a later context overrides an earlier one
last_match(text, k) ==
    IF k > Len(CONTEXTS) THEN "general_crypto"
    ELSE LET later == last_match(text, k + 1)
         IN  IF later # "general_crypto" THEN later
             ELSE IF MatchesContext(text, k) THEN CONTEXTS[k].context
             ELSE "general_crypto"

RECURSIVE first_match(_, _)
\* the two for loops, from the k-th context on: the first hit returns
first_match(text, k) ==
    IF k > Len(CONTEXTS) THEN "general_crypto"
    ELSE IF MatchesContext(text, k) THEN CONTEXTS[k].context
    ELSE first_match(text, k + 1)

detect_tweet_context(tweet_text) == first_match(lower(tweet_text), 1)

\* words of tweets: keywords in either case, keywords inside other words
\* (update, start, second), a keyword of two contexts (yield), and none
Words ==
    { <<"A", "i", "r", "d", "r", "o", "p">>,
      <<"P", "R", "I", "C", "E">>,
      <<"u", "p", "d", "a", "t", "e">>,
      <<"Y", "i", "e", "l", "d">>,
      <<"s", "t", "a", "r", "t">>,
      <<"f", "a", "r", "m">>,
      <<"s", "e", "c", "o", "n", "d">>,
      <<"g", "m">>,
      <<"h", "o", "d", "l">>,
      <<"N", "F", "T">>,
      <<"s", "t", "a", "k", "e">>,
      <<"s", "w", "a", "p">> }

RECURSIVE TextsUpTo(_)
\* the texts of at most n words separated by a blank
TextsUpTo(n) ==
    IF n = 0 THEN { <<>> }
    ELSE LET shorter == TextsUpTo(n - 1)
         IN  shorter \cup Words \cup { t \o <<" ">> \o w : t \in shorter \ {<<>>}, w \in Words }

InitDetect ==
    /\ BotIdle
    /\ pc = "Detecting"
    /\ fn_in \in TextsUpTo(MaxWords)
    /\ fn_out = <<>>

\* context = detect_tweet_context(tweet_text)
DetectCall ==
    /\ pc = "Detecting"
    /\ fn_out' = detect_tweet_context(fn_in)
    /\ pc' = "Detected"
    /\ UNCHANGED <<botvars, fn_in>>

SpecDetect == InitDetect /\ [][DetectCall]_vars

\* ------------------------------------------------------------------ claims
EventsOf(op) == SelectSeq(events, LAMBDA e : e.op = op)

\* C1: no post is attempted for a candidate that has a record in the history
\* the run holds (loaded at its start or added earlier in it); and as long as
\* every load and every save succeeded and no run was killed inside a save,
\* no tweet id has received more than one successful reply.
C1_NoSecondReply ==
    /\ pc \in {"RateWaiting", "Posting"} => Str(tweets[idx].id) \notin DOMAIN replied_tweets
    /\ \A i \in 1 .. Len(events) :
         events[i].op = "post" => Str(events[i].id) \notin start_keys
    /\ dirty = {} => \A id \in TweetIds : twitter[id] <= 1

\* a second run, the store intact, skips a candidate the first run replied to
C1_Witness ==
    /\ runs = 2
    /\ dirty = {}
    /\ pc = "Done"
    /\ \E i \in 1 .. Len(events) :
         /\ events[i].op = "skip"
         /\ Str(events[i].id) \in start_keys
         /\ twitter[events[i].id] = 1

\* C2: the successful replies of a run never exceed max_tweets, for every
\* max_tweets >= 0.
C2_QuotaBound == reply_count <= max_tweets

\* C3: a kill at any point of a run never leads a later run to reply again to
\* a candidate the killed run replied to (loads and saves that ran all
\* succeeded).
C3_KillSafe == dirty \subseteq {"kill"} => \A id \in TweetIds : twitter[id] <= 1

\* C4: a record of the persisted store is never removed or overwritten.
C4_RecordsKept ==
    [][\A k \in DOMAIN history_file.data :
          /\ k \in DOMAIN history_file'.data
          /\ history_file'.data[k] = history_file.data[k]]_vars

\* the run that follows a completed run and got the same candidates from search
SameSearchAgain == pc = "Done" /\ Searched /\ prev.done /\ tweets = prev.tweets

\* C5 as stated: a second run with the same search results and the same store
\* posts no reply (loads and saves all succeeding).
C5_SecondRunSilent == SameSearchAgain /\ dirty = {} => reply_count = 0

\* C5 amended: a second run with the same search results posts no reply when
\* every candidate was in the persisted store at its start and its load
\* succeeded.
C5_SecondRunSilentWhenAllRecorded ==
    SameSearchAgain /\ prev.recorded /\ "load" \notin faults =>
        /\ reply_count = 0
        /\ EventsOf("post") = <<>>
        /\ Len(EventsOf("skip")) = Len(tweets)

C5_Witness ==
    /\ SameSearchAgain
    /\ prev.recorded
    /\ "load" \notin faults
    /\ Len(tweets) = 2
    /\ tweets[1].id # tweets[2].id

\* C6: a failed post leaves the reply count, the history (in memory and on
\* disk) and the service's replies as they were and moves the loop to the next
\* candidate; a run whose first attempt failed and whose second succeeded ends
\* with one reply and a new record for the second candidate only.
C6_FailedPost ==
    /\ [][pc = "Posting" /\ events' = Append(events, Ev("post", tweets[idx].id, FALSE)) =>
            /\ reply_count' = reply_count
            /\ replied_tweets' = replied_tweets
            /\ history_file' = history_file
            /\ twitter' = twitter
            /\ pc' = "Iterating"
            /\ idx' = idx + 1
            /\ tweets' = tweets]_vars
    /\ [](pc = "Done" /\ Len(EventsOf("post")) = 2
             /\ ~EventsOf("post")[1].ok /\ EventsOf("post")[2].ok =>
            /\ reply_count = 1
            /\ DOMAIN replied_tweets \ start_keys = {Str(EventsOf("post")[2].id)})

C6_Witness ==
    /\ pc = "Done"
    /\ Len(EventsOf("post")) = 2
    /\ ~EventsOf("post")[1].ok
    /\ EventsOf("post")[2].ok
    /\ EventsOf("post")[1].id # EventsOf("post")[2].id
    /\ reply_count = 1

\* the candidates of this run that had a record when the run loaded the store
Recorded == { i \in 1 .. Len(tweets) : Str(tweets[i].id) \in start_keys }

Fresh == (1 .. Len(tweets)) \ Recorded

\* The run of the scenario, at its end: five raw posts of which one was
\* dropped, two of the four candidates recorded, quota 2, no fault.
ScenarioRunDone ==
    /\ pc = "Done"
    /\ Searched
    /\ faults = {}
    /\ max_tweets = 2
    /\ Len(tweets) = 4
    /\ ignored = 1
    /\ Cardinality({ tweets[i].id : i \in 1 .. 4 }) = 4
    /\ Cardinality(Recorded) = 2

\* the rank of the second candidate without a record
SecondFresh == CHOOSE i \in Fresh : Cardinality({ j \in Fresh : j < i }) = 1

\* C7 as stated: the scenario run posts 2 replies, skips 2 candidates, ignores
\* 1 and adds 2 records, whatever the ranking.
C7_TwoPostedTwoSkipped ==
    ScenarioRunDone =>
        /\ reply_count = 2
        /\ Len(EventsOf("skip")) = 2
        /\ ignored = 1
        /\ history_file.valid
        /\ Cardinality(DOMAIN history_file.data) = Cardinality(start_keys) + 2

\* C7 amended: the scenario run posts 2 replies, ignores 1, adds 2 records, and
\* skips the recorded candidates ranked above the second unrecorded one (so 0,
\* 1 or 2 of them): the loop stops at the quota before it reaches the others.
C7_TwoPostedSkipsBeforeQuota ==
    ScenarioRunDone =>
        /\ reply_count = 2
        /\ Len(EventsOf("skip")) = Cardinality({ j \in Recorded : j < SecondFresh })
        /\ Len(EventsOf("skip")) <= 2
        /\ ignored = 1
        /\ history_file.valid
        /\ Cardinality(DOMAIN history_file.data) = Cardinality(start_keys) + 2
        /\ DOMAIN history_file.data \ start_keys =
               { Str(tweets[i].id) : i \in { j \in Fresh : j <= SecondFresh } }

\* a scenario run in which a recorded candidate ranks below the second new one
C7_Witness ==
    /\ ScenarioRunDone
    /\ \E j \in Recorded : j > SecondFresh
    /\ \E j \in Recorded : j < SecondFresh

\* two check_and_wait calls in a row on one endpoint, the first entered with
\* remaining = 1 and the reset time ahead
TwoAcquiresFromOne ==
    /\ Len(events) = 2
    /\ events[1].op = "acquire"
    /\ events[2].op = "acquire"
    /\ events[1].endpoint = events[2].endpoint
    /\ events[1].before.remaining = 1
    /\ events[1].before.reset_time > events[1].entered

\* C8 as stated: of the two calls the first returns at once and the second
\* sleeps until the reset time or later, remaining then back at the ceiling.
C8_SecondCallWaits ==
    TwoAcquiresFromOne =>
        /\ events[1].returned = events[1].entered
        /\ events[2].returned > events[2].entered
        /\ events[2].returned >= events[1].before.reset_time
        /\ events[2].after.remaining \in
               {Ceiling(events[2].endpoint), Ceiling(events[2].endpoint) - 1}

\* C8 amended: it is the first call that sleeps, until after the reset time;
\* it resets remaining to the ceiling, starts a new window and takes its unit;
\* the second call returns at once and only takes its unit.
C8_FirstCallWaits ==
    TwoAcquiresFromOne =>
        LET a == events[1]
            b == events[2]
        IN  /\ a.returned > a.before.reset_time
            /\ a.after.remaining = Ceiling(a.endpoint) - 1
            /\ a.after.reset_time = a.returned + WINDOW
            /\ b.returned = b.entered
            /\ b.after.remaining = Ceiling(b.endpoint) - 2
            /\ b.after.reset_time = a.after.reset_time

C8_Witness ==
    /\ TwoAcquiresFromOne
    /\ events[1].endpoint = "post"
    /\ events[2].after.remaining = POST_CEILING - 2

\* C9: remaining is never negative.
C9_RemainingNonNegative ==
    \A e \in Endpoints : rate_limits[e].remaining >= 0

\* C10: a check_and_wait entered with remaining <= 1 returns no earlier than
\* the reset time, with remaining at the ceiling less one and a new window
\* started; entered with remaining > 1 it only takes one unit.
C10_AcquireEffect ==
    \A i \in 1 .. Len(events) :
      LET a == events[i]
      IN  a.op = "acquire" =>
            IF a.before.remaining <= 1
            THEN /\ a.returned >= a.before.reset_time
                 /\ a.after.remaining = Ceiling(a.endpoint) - 1
                 /\ a.after.reset_time = a.returned + WINDOW
            ELSE /\ a.returned = a.entered
                 /\ a.after = [a.before EXCEPT !.remaining = @ - 1]

\* the posts of this run that succeeded
PostsOk == SelectSeq(events, LAMBDA e : e.op = "post" /\ e.ok)

\* C11: a run that started reaches Done, whatever the search, the posts, the
\* load and the saves do; at Done reply_count is the number of posts of the run
\* that succeeded, and it is the number the run reports.
C11_RunEndsWithCount ==
    /\ [](pc = "Done" =>
            /\ reply_count = Len(PostsOk)
            /\ Searched => events[Len(events)] = Ev("done", Len(PostsOk), TRUE))
    /\ (Running ~> pc = "Done")

\* a finished run with a failed post, a successful post and a failed save
C11_Witness ==
    /\ pc = "Done"
    /\ faults = {"post", "save"}
    /\ reply_count = 1
    /\ Len(EventsOf("post")) = 2

\* twice the score l + 2*r + 1.5*rp of a metrics triple, as the specification defines it
ScoreTwice(m) == 2 * (m[1] + 2 * m[2]) + 3 * m[3]

\* the ids of a returned candidate list, in order
IdsOf(out) == [k \in 1 .. Len(out) |-> out[k].id]

\* C12: the selector returns exactly the raw posts whose score
\* likes + 2*reposts + 1.5*replies is at least 100 (100 itself included), each
\* once, highest score first and equal scores in their original relevance
\* order; the scores [40, 150, 100, 300] give [300, 150, 100].
C12_SelectsAndOrders ==
    (pc = "Return" /\ fn_in.ok) =>
      LET raw == fn_in.data
          out == fn_out
      IN  /\ \A i \in 1 .. Len(raw) :
                (ScoreTwice(raw[i].metrics) >= 2 * 100)
                   <=> (\E k \in 1 .. Len(out) : out[k].id = i)
          /\ \A k \in 1 .. Len(out) :
                /\ out[k].id \in 1 .. Len(raw)
                /\ out[k].engagement_score = ScoreTwice(raw[out[k].id].metrics)
          /\ \A k, l \in 1 .. Len(out) :
                k < l =>
                  \/ out[k].engagement_score > out[l].engagement_score
                  \/ /\ out[k].engagement_score = out[l].engagement_score
                     /\ out[k].id < out[l].id
          /\ raw = Response(<< <<40, 0, 0>>, <<150, 0, 0>>, <<0, 50, 0>>, <<100, 100, 0>> >>)
                => IdsOf(out) = <<4, 2, 3>>

\* a response with two posts at exactly 100, one at 99.5 and one at 300
C12_Witness ==
    /\ pc = "Return"
    /\ fn_in.ok
    /\ fn_in.data = Response(<< <<0, 50, 0>>, <<98, 0, 1>>, <<100, 0, 0>>, <<100, 100, 0>> >>)
    /\ IdsOf(fn_out) = <<4, 1, 3>>

\* the search of this run raised, or its response held no post at all
EmptySearch ==
    /\ Searched
    /\ \/ Ev("search", 0, FALSE) \in { events[i] : i \in 1 .. Len(events) }
       \/ tweets = <<>> /\ ignored = 0

\* C13: when the search fails or returns nothing the candidate list is empty
\* and the run completes normally with reply count 0: nothing is composed, no
\* post budget is acquired, nothing is posted, and the history, in memory and
\* on disk, is left as it was.
C13_EmptySearchEndsQuietly ==
    /\ [](EmptySearch =>
            /\ tweets = <<>>
            /\ reply_count = 0
            /\ \A i \in 1 .. Len(events) :
                  events[i].op \in {"acquire_search", "search", "done"}
            /\ pc \in {"Iterating", "Done"})
    /\ [][EmptySearch' => UNCHANGED <<history_file, replied_tweets, twitter>>]_vars
    /\ (EmptySearch ~> (pc = "Done" /\ Searched /\ events[Len(events)] = Ev("done", 0, TRUE)))

\* a failed search ended a run that started from a non-empty history
C13_Witness ==
    /\ pc = "Done"
    /\ faults = {"search"}
    /\ start_keys # {}
    /\ events = <<Ev("acquire_search", 0, TRUE), Ev("search", 0, FALSE), Ev("done", 0, TRUE)>>

\* C14: the reply returned has at most 250 characters whatever the text and
\* the persona; a generated text longer than 250 comes back as its first 247
\* characters followed by the three-character marker, 250 characters in all;
\* a generated text of at most 250 characters comes back unchanged.
C14_ReplyWithinLimit ==
    pc = "Composed" =>
      /\ Len(fn_out) <= 250
      /\ ~fn_in.raises =>
            LET t == fn_in.generated
            IN  /\ Len(t) > 250 =>
                      /\ Len(fn_out) = 250
                      /\ \A i \in 1 .. 247 : fn_out[i] = t[i]
                      /\ \A i \in 248 .. 250 : fn_out[i] = "."
                /\ Len(t) <= 250 => fn_out = t

\* a generated text one character over the limit was cut
C14_Witness ==
    /\ pc = "Composed"
    /\ ~fn_in.raises
    /\ Len(fn_in.generated) = 251
    /\ Len(fn_out) = 250
    /\ SubSeq(fn_out, 248, 250) = <<".", ".", ".">>
    /\ fn_out[247] = fn_in.generated[247]

\* the categories in their priority order
Priority == <<"market_volatility", "airdrops", "staking", "nft", "defi", "regulation">>

\* C15: topic detection returns the first category, in the order
\* market_volatility, airdrops, staking, nft, defi, regulation, one of whose
\* keywords occurs in the lower-cased text, and the general category when no
\* category matches; a text matching several categories gets the earliest.
C15_FirstCategoryWins ==
    pc = "Detected" =>
      LET t == lower(fn_in)
          hits == { k \in 1 .. 6 : MatchesContext(t, k) }
      IN  /\ [k \in 1 .. Len(CONTEXTS) |-> CONTEXTS[k].context] = Priority
          /\ hits = {} => fn_out = "general_crypto"
          /\ \A k \in hits : (\A l \in hits : k <= l) => fn_out = Priority[k]
          /\ fn_in = <<"Y", "i", "e", "l", "d", " ", "f", "a", "r", "m">> => fn_out = "staking"
          /\ fn_in = <<"s", "e", "c", "o", "n", "d", " ", "N", "F", "T", " ", "P", "R", "I", "C", "E">>
                => fn_out = "market_volatility"
          /\ fn_in = <<"g", "m", " ", "h", "o", "d", "l">> => fn_out = "general_crypto"

\* a text with keywords of nft, defi and regulation, partly in upper case
C15_Witness ==
    /\ pc = "Detected"
    /\ fn_in = <<"s", "e", "c", "o", "n", "d", " ", "s", "w", "a", "p", " ", "N", "F", "T">>
    /\ fn_out = "nft"

\* the i-th step of the run was op on tweet id
StepIs(i, op, id) ==
    /\ i \in 1 .. Len(events)
    /\ events[i].op = op
    /\ events[i].id = id

\* C16: the steps of a run follow the pipeline: acquire("search") comes first
\* and precedes the one search call; a candidate that is not skipped is
\* composed, then acquire("post") is called, then the post; recordReply
\* follows a post exactly when it succeeded; every post attempt has one
\* acquire("post") immediately before it, so acquisitions and attempts are
\* equal in number.
C16_PipelineOrder ==
    /\ events # <<>> => events[1].op = "acquire_search"
    /\ \A i \in 1 .. Len(events) :
         LET e == events[i]
             last == (i = Len(events))
         IN  /\ e.op = "acquire_search" => i = 1 /\ (last \/ events[2].op = "search")
             /\ e.op = "search" => i = 2
             /\ e.op = "compose" => last \/ StepIs(i + 1, "acquire_post", e.id)
             /\ e.op = "acquire_post" =>
                   /\ StepIs(i - 1, "compose", e.id)
                   /\ last \/ StepIs(i + 1, "post", e.id)
             /\ e.op = "post" =>
                   /\ StepIs(i - 1, "acquire_post", e.id)
                   /\ StepIs(i - 2, "compose", e.id)
                   /\ e.ok => last \/ StepIs(i + 1, "record", e.id)
                   /\ ~e.ok => last \/ events[i + 1].op # "record"
             /\ e.op = "record" => StepIs(i - 1, "post", e.id) /\ events[i - 1].ok
    /\ Len(EventsOf("acquire_post")) =
         Len(EventsOf("post")) + (IF pc = "Posting" THEN 1 ELSE 0)
    /\ pc = "Posting" <=> (events # <<>> /\ events[Len(events)].op = "acquire_post")
    /\ pc = "RateWaiting" <=> (events # <<>> /\ events[Len(events)].op = "compose")
    /\ pc = "Recording" <=>
         (events # <<>> /\ events[Len(events)].op = "post" /\ events[Len(events)].ok)

\* a finished run with a failed and a successful post attempt
C16_Witness ==
    /\ pc = "Done"
    /\ Len(EventsOf("acquire_post")) = 2
    /\ Len(EventsOf("post")) = 2
    /\ Len(EventsOf("record")) = 1
    /\ Len(EventsOf("compose")) = 2

\* the pauses among the steps i+1 .. j-1 of the run
PausesBetween(i, j) ==
    Cardinality({ k \in i + 1 .. j - 1 : events[k].op = "pause" })

\* C17: after a successful post the reply is recorded, the reply count goes
\* up by one, and the fixed pause of 30 seconds is taken before the loop is
\* back at Iterating; so between a successful post and the next post attempt
\* of the same run there is one inter-reply pause.
C17_PauseAfterReply ==
    /\ [](\A i, j \in 1 .. Len(events) :
            (/\ i < j
             /\ events[i].op = "post" /\ events[i].ok
             /\ events[j].op = "post"
             /\ \A k \in i + 1 .. j - 1 : events[k].op # "post")
              => /\ events[i + 1].op = "record"
                 /\ events[i + 2].op = "pause"
                 /\ PausesBetween(i, j) = 1)
    /\ [][(pc = "Recording" /\ pc' # "Killed") =>
            /\ reply_count' = reply_count + 1
            /\ Str(tweets[idx].id) \in DOMAIN replied_tweets'
            /\ pc' \in {"Pausing", "Done"}
            /\ pc' = "Pausing" <=> reply_count' < max_tweets]_vars
    /\ [][(pc = "Pausing" /\ pc' # "Killed") =>
            /\ pc' = "Iterating"
            /\ now' = now + 30
            /\ idx' = idx + 1]_vars

\* a second post attempt after a reply, its record and the pause
C17_Witness ==
    /\ Len(events) >= 9
    /\ events[5].op = "post" /\ events[5].ok
    /\ events[6].op = "record"
    /\ events[7].op = "pause"
    /\ events[8].op = "compose"
    /\ events[9].op = "acquire_post"
    /\ pc = "Iterating"
    /\ events[Len(events)].op = "post"

\* the candidates gone through so far in this run: skipped or attempted
Processed == SelectSeq(events, LAMBDA e : e.op \in {"skip", "post"})

\* C18: candidates are processed in score-descending order: the k-th
\* candidate skipped or attempted is the k-th of the list sorted by score, so
\* post attempts come in non-increasing score order, and when the run stops
\* on quota no candidate left unattempted has a higher score than one that
\* was attempted or skipped.
C18_HighestFirst ==
    /\ \A i, j \in 1 .. Len(tweets) :
          i < j => tweets[i].engagement_score >= tweets[j].engagement_score
    /\ Len(Processed) <= Len(tweets)
    /\ \A k \in 1 .. Len(Processed) : Processed[k].id = tweets[k].id
    /\ \A k, l \in 1 .. Len(Processed) :
          (k < l /\ Processed[k].op = "post" /\ Processed[l].op = "post")
             => tweets[k].engagement_score >= tweets[l].engagement_score
    /\ (pc = "Done" /\ Searched) =>
          /\ Len(Processed) = IF idx > Len(tweets) THEN Len(tweets) ELSE idx
          /\ \A u \in Len(Processed) + 1 .. Len(tweets), k \in 1 .. Len(Processed) :
                tweets[u].engagement_score <= tweets[k].engagement_score

\* the quota stopped a run with a lower-scored candidate left unattempted
C18_Witness ==
    /\ pc = "Done"
    /\ Len(tweets) = 2
    /\ Len(Processed) = 1
    /\ Processed[1].op = "post"
    /\ reply_count = max_tweets
    /\ tweets[2].engagement_score < tweets[1].engagement_score

\* this step records a reply and the save of the history fails
SaveFailsInStep ==
    /\ pc = "Recording"
    /\ pc' # "Killed"
    /\ Len(events') > Len(events)
    /\ events'[Len(events) + 1] = Ev("record", tweets[idx].id, FALSE)

\* C19: a failed save of the history after a successful post does not abort
\* the run: the reply is counted toward the quota, the run goes on to the
\* pause and the next candidate (or ends because the quota is reached), and
\* the record in memory keeps the same id from being composed for or posted
\* to again in that run.
C19_SaveFailureGoesOn ==
    /\ [][SaveFailsInStep =>
            /\ reply_count' = reply_count + 1
            /\ has_replied(replied_tweets', tweets[idx].id)
            /\ tweets' = tweets /\ idx' = idx
            /\ pc' = IF reply_count' >= max_tweets THEN "Done" ELSE "Pausing"]_vars
    /\ [](\A i, j \in 1 .. Len(events) :
            (/\ i < j
             /\ events[i].op = "record"
             /\ events[j].op # "done"
             /\ events[j].id = events[i].id)
               => events[j].op \in {"pause", "skip"})
    /\ [](pc = "Done" /\ Searched => reply_count = Len(EventsOf("record")))

\* the save failed, the run went on, and the same id came up again and was skipped
C19_Witness ==
    /\ pc = "Done"
    /\ Len(events) >= 9
    /\ events[6] = Ev("record", events[5].id, FALSE)
    /\ events[7].op = "pause"
    /\ events[8] = Ev("skip", events[5].id, TRUE)
    /\ reply_count = 1
    /\ ~history_file.valid \/ Str(events[5].id) \notin DOMAIN history_file.data

\* the loop is at a candidate that the history in memory holds, and goes on
SkipInStep ==
    /\ pc = "Iterating"
    /\ idx <= Len(tweets)
    /\ Str(tweets[idx].id) \in DOMAIN replied_tweets
    /\ pc' # "Killed"

\* the candidates skipped or attempted among the first i steps of the run
ProcessedUpTo(i) ==
    Cardinality({ k \in 1 .. i : events[k].op \in {"skip", "post"} })

\* C20: skipping a candidate already answered moves the loop to the next
\* candidate and changes nothing else: the reply count, the history in
\* memory and on disk, both rate budgets, the clock and the service are left
\* as they were, and no compose, acquire("post"), post or pause is made for it.
C20_SkipChangesNothing ==
    /\ [][SkipInStep =>
            /\ idx' = idx + 1
            /\ pc' = "Iterating"
            /\ events' = Append(events, Ev("skip", tweets[idx].id, TRUE))
            /\ UNCHANGED <<reply_count, replied_tweets, history_file, rate_limits,
                           now, twitter, tweets, max_tweets>>]_vars
    /\ [](\A i \in 1 .. Len(events) :
            events[i].op = "skip" =>
              /\ events[i - 1].op \in {"search", "skip", "post", "pause"}
              /\ i < Len(events) =>
                    \/ events[i + 1].op \in {"skip", "done"}
                    \/ /\ events[i + 1].op = "compose"
                       /\ ProcessedUpTo(i) < Len(tweets)
                       /\ events[i + 1].id = tweets[ProcessedUpTo(i) + 1].id)

\* a candidate answered in an earlier run was skipped with the budgets untouched
C20_Witness ==
    /\ pc = "Iterating"
    /\ start_keys # {}
    /\ events # <<>>
    /\ events[Len(events)].op = "skip"
    /\ Str(events[Len(events)].id) \in start_keys
    /\ rate_limits["post"].remaining = 50
    /\ reply_count = 0

\* the clock and the windows stand still, a budget goes down by one at most
NoWaitInStep ==
    /\ now' = now
    /\ \A e \in Endpoints :
          /\ rate_limits'[e].reset_time = rate_limits[e].reset_time
          /\ rate_limits'[e].remaining \in
               {rate_limits[e].remaining, rate_limits[e].remaining - 1}

\* C21: within one run the rate limit handler never makes the caller wait:
\* the budgets start at 450 and 50, nothing but the run's own acquisitions
\* changes them, there is one acquire("search") and at most one
\* acquire("post") per candidate, so with at most 30 posts returned the
\* search budget is 450 before the search and 449 after it and the post
\* budget is 50 less the acquisitions made, never below 20.
C21_NeverSuspended ==
    /\ [](/\ Len(tweets) <= 30
          /\ Len(EventsOf("acquire_search")) <= 1
          /\ Len(EventsOf("acquire_post")) <= Len(tweets)
          /\ rate_limits["search"].remaining = IF Searched THEN 449 ELSE 450
          /\ rate_limits["post"].remaining = 50 - Len(EventsOf("acquire_post"))
          /\ rate_limits["post"].remaining >= 20)
    /\ [][(pc \in {"Searching", "RateWaiting"}) => NoWaitInStep]_vars

\* a run over a full page in which every candidate took a post acquisition
C21_Witness ==
    /\ pc = "Done"
    /\ Len(tweets) = 30
    /\ Len(EventsOf("post")) = 30
    /\ rate_limits["post"].remaining = 20
    /\ rate_limits["search"].remaining = 449
    /\ reply_count = 2

\* the records either of the two runs saved successfully
SavedRecords ==
    { e \in { events[i] : i \in 1 .. Len(events) }
             \cup { other.events[i] : i \in 1 .. Len(other.events) } :
        e.op = "record" /\ e.ok }

\* two runs were started, both searched and got the same candidates, both are done
BothDoneSameSearch ==
    /\ runs = 2
    /\ pc = "Done" /\ Searched
    /\ other.pc = "Done" /\ other.events # <<>>
    /\ tweets = other.tweets

\* C22: two runs overlapping in time on the same history store and the same
\* search results (every load and save succeeding): each candidate id gets at
\* most one successful reply, and every record either run persisted is in
\* the store when both have finished.
C22_OverlapSafe ==
    (BothDoneSameSearch /\ dirty = {}) =>
      /\ \A id \in TweetIds : twitter[id] <= 1
      /\ \A e \in SavedRecords : Str(e.id) \in DOMAIN history_file.data

====
